---- MODULE Spec2Model ----
(***************************************************************************)
(* Aro Bazzar backend (src/app.py): the Flask handlers over the SQLite     *)
(* tables users, categories, products, orders and order_items, guarded by  *)
(* flask_jwt_extended access tokens.                                       *)
(*                                                                         *)
(* Every SQL statement is one atomic step of the store.  A handler that    *)
(* issues one statement is one action; update_product, which issues three  *)
(* (SELECT, UPDATE, then get_product's SELECT), is modelled both as the    *)
(* whole handler (update_product, the serial specifications) and statement *)
(* by statement (UpdateProductCheck/Write/Read, the threaded one).         *)
(***************************************************************************)
EXTENDS Integers, FiniteSets, Sequences, TLC

\* ------------------------------------------------------------------ bounds
MaxUsers == 2
MaxTokens == 2
MaxTime == 2
MaxRestarts == 1
MaxCategories == 2
MaxProducts == 2
MaxWrites == 3
MaxOrders == 2

\* flask_jwt_extended's default access-token lifetime (15 minutes), in ticks
\* of the model's clock.
JWT_ACCESS_TOKEN_EXPIRES == 1

\* ----------------------------------------------------------------- domains
Usernames == {"admin", "alice"}
LoginNames == Usernames \cup {"wronguser"}
\* passwords within bcrypt's 72-byte input range
Passwords == {"changethispassword", "pw"}
CategoryNames == {"c1", "c2"}
Threads == {1, 2}
\* a key the JSON body of a request does not hold
Absent == "(absent)"
\* order statuses: two of the five the storefront uses, and one that is none
Statuses == {"Pending", "Delivered", "on hold"}

\* SQL / JSON values of the one column that is written with mixed types
\* (products.category_id: an integer, NULL, or the '' sentinel of the form).
NULL == [k |-> "null", v |-> 0]
IntVal(n) == [k |-> "int", v |-> n]
EmptyStr == [k |-> "str", v |-> 0]

VARIABLES
    users,            \* table users: rows [id, username, password_hash, is_admin]
    categories,       \* table categories: rows [id, name]
    products,         \* table products
    orders,           \* table orders
    order_items,      \* table order_items
    sqlite_sequence,  \* AUTOINCREMENT high-water mark of each table
    secret,           \* app.config["JWT_SECRET_KEY"] of the running process
    now,              \* wall clock, in ticks
    tokens,           \* access tokens issued so far (held by clients)
    thr,              \* per worker thread: the request it is in the middle of
    last,             \* the request most recently answered, with its response
    writes,           \* number of requests that changed the store
    accounts          \* history: the accounts POST /api/users has created,
                      \* each with the password it was created with

vars == <<users, categories, products, orders, order_items, sqlite_sequence,
          secret, now, tokens, thr, last, writes, accounts>>

store == <<users, categories, products, orders, order_items, sqlite_sequence>>

\* ------------------------------------------------------------- credentials
\* bcrypt.generate_password_hash / check_password_hash: a salted one-way
\* digest; checking re-hashes the candidate under the stored salt.
Bcrypt(salt, password) == [salt |-> salt, digest |-> <<salt, password>>]
generate_password_hash(password) == Bcrypt("s", password)
\* Fault for C3: a check that compares the salt only.
check_password_hash_Any(pw_hash, password) == Bcrypt(pw_hash.salt, password).salt = pw_hash.salt
check_password_hash(pw_hash, password) == Bcrypt(pw_hash.salt, password) = pw_hash

\* What a client can put in the Authorization header: nothing, something that
\* is no JWT, a token login issued, or a token signed with a key of its own.
NoToken == [kind |-> "none", sub |-> 0, is_admin |-> FALSE, key |-> 0, exp |-> 0]
Malformed == [kind |-> "malformed", sub |-> 0, is_admin |-> FALSE, key |-> 0, exp |-> 0]
Forged == [kind |-> "jwt", sub |-> 1, is_admin |-> TRUE, key |-> -1, exp |-> MaxTime + 2]
Credentials == {NoToken, Malformed, Forged} \cup tokens

\* create_access_token(identity=..., additional_claims={"is_admin": ...})
create_access_token(identity, is_admin) ==
    [kind |-> "jwt", sub |-> identity, is_admin |-> is_admin,
     key |-> secret, exp |-> now + JWT_ACCESS_TOKEN_EXPIRES]

\* Fault for C5: the expiry of the token is not looked at.
verify_jwt_in_request_NoExpiry(cred) ==
    IF cred.kind = "none" THEN "missing"
    ELSE IF cred.kind = "malformed" THEN "invalid"
    ELSE IF cred.key # secret THEN "invalid"
    ELSE "ok"

\* verify_jwt_in_request(): header present, decodable, signature, then expiry.
verify_jwt_in_request(cred) ==
    IF cred.kind = "none" THEN "missing"
    ELSE IF cred.kind = "malformed" THEN "invalid"
    ELSE IF cred.key # secret THEN "invalid"
    ELSE IF cred.exp <= now THEN "expired"
    ELSE "ok"

\* ------------------------------------------------------ requests, responses
ProductFields == {"name", "description", "price", "stock", "image_url", "category_id"}
ProductColumns == ProductFields \cup {"id"}

\* A JSON object sent as a request body: the keys present, and their values
\* (a key that is absent holds the filler of Blank, which nothing reads).
Blank == [name |-> "", description |-> "", price |-> 0, stock |-> 0,
          image_url |-> "", category_id |-> NULL, id |-> 0]
Json(keys, val) ==
    [keys |-> keys,
     val |-> [c \in ProductColumns |-> IF c \in keys THEN val[c] ELSE Blank[c]]]
NoData == Json({}, Blank)

\* What a handler reads of the request besides the token.
Req(id, name, password, is_admin, data) ==
    [id |-> id, name |-> name, password |-> password, is_admin |-> is_admin,
     data |-> data]
NoReq == Req(0, "", "", FALSE, NoData)
ReqId(id) == Req(id, "", "", FALSE, NoData)
ReqData(id, data) == Req(id, "", "", FALSE, data)

NoView == [id |-> 0]
Resp(op, caller, req, status, error, view) ==
    [op |-> op, caller |-> caller, req |-> req,
     status |-> status, error |-> error, view |-> view]

\* The default error callbacks JWTManager(app) registers: a missing header and
\* an expired token answer 401, an undecodable or badly signed token 422.
\* The handler has not run, so nothing of the request body was read.
JwtError(op, cred, verdict) ==
    IF verdict = "missing"
    THEN Resp(op, cred, NoReq, 401, "Missing Authorization Header", NoView)
    ELSE IF verdict = "expired"
    THEN Resp(op, cred, NoReq, 401, "Token has expired", NoView)
    ELSE Resp(op, cred, NoReq, 422, "Invalid token", NoView)

\* @jwt_required(): the response that ends the request, or Pass.
Pass == Resp("", NoToken, NoReq, 0, "", NoView)
jwt_required(op, cred) ==
    IF verify_jwt_in_request(cred) = "ok" THEN Pass
    ELSE JwtError(op, cred, verify_jwt_in_request(cred))

\* Fault for C2: the is_admin claim is not looked at.
admin_required_NoRoleCheck(op, cred) == jwt_required(op, cred)

\* @admin_required()
admin_required(op, cred) ==
    IF verify_jwt_in_request(cred) # "ok"
    THEN JwtError(op, cred, verify_jwt_in_request(cred))
    ELSE IF cred.is_admin THEN Pass
    ELSE Resp(op, cred, NoReq, 403, "Administration rights required", NoView)

\* ------------------------------------------------------------------ tables
MaxOf(S) == IF S = {} THEN 0 ELSE CHOOSE m \in S : \A x \in S : x <= m
Ids(rows) == {r.id : r \in rows}
\* INTEGER PRIMARY KEY AUTOINCREMENT: one more than the largest id ever used.
NextId(table, rows) == MaxOf(Ids(rows) \cup {sqlite_sequence[table]}) + 1

IdleThread == [pc |-> "idle", caller |-> NoToken, req |-> NoReq, rowcount |-> 0]

\* Fault for C28: the default administrator inserted without looking for one.
InitDbUsers_Always(rows) ==
    rows \cup {[id |-> MaxOf(Ids(rows)) + 1, username |-> "admin",
                password_hash |-> generate_password_hash("changethispassword"),
                is_admin |-> TRUE]}

\* What init_db's INSERT of the default administrator would raise on rows:
\* username is UNIQUE, and the INSERT runs when no row has is_admin = 1.
InitDbError(rows) ==
    IF (\A u \in rows : ~u.is_admin) /\ (\E u \in rows : u.username = "admin")
    THEN "IntegrityError" ELSE ""

\* init_db(): the default admin is created when no admin exists.
InitDbUsers(rows) ==
    IF \E u \in rows : u.is_admin THEN rows
    ELSE rows \cup {[id |-> MaxOf(Ids(rows)) + 1, username |-> "admin",
                     password_hash |-> generate_password_hash("changethispassword"),
                     is_admin |-> TRUE]}

Started == Resp("start", NoToken, NoReq, 0, "", NoView)

Init ==
    /\ users = InitDbUsers({})
    /\ categories = {}
    /\ products = {}
    /\ orders = {}
    /\ order_items = {}
    /\ sqlite_sequence = [users |-> 1, categories |-> 0, products |-> 0, orders |-> 0,
                          order_items |-> 0]
    /\ secret = 0
    /\ now = 0
    /\ tokens = {}
    /\ thr = [t \in Threads |-> IdleThread]
    /\ last = Started
    /\ writes = 0
    /\ accounts = {}

\* -------------------------------------------------------------- environment
Tick ==
    /\ now < MaxTime
    /\ now' = now + 1
    /\ UNCHANGED <<store, secret, tokens, thr, last, writes, accounts>>

\* The process is stopped and started again: a fresh JWT_SECRET_KEY, the
\* requests in flight are lost, init_db() runs on the database file.
Restart ==
    /\ secret < MaxRestarts
    /\ secret' = secret + 1
    /\ users' = InitDbUsers(users)
    /\ thr' = [t \in Threads |-> IdleThread]
    /\ last' = Started
    /\ UNCHANGED <<categories, products, orders, order_items, sqlite_sequence,
                   now, tokens, writes, accounts>>

\* A request answered without touching the store.
Answer(r) ==
    /\ last' = r
    /\ UNCHANGED <<store, secret, now, tokens, thr, writes, accounts>>

\* The budget of store-changing requests of one run of the model.
Spend(changed) ==
    /\ changed => writes < MaxWrites
    /\ writes' = IF changed THEN writes + 1 ELSE writes

\* ------------------------------------------------------- auth and users
\* Fault for C4: an unknown username gets an answer of its own.
LoginResponse_UserNotFound(username, password) ==
    LET rows == {u \in users : u.username = username}
        req == Req(0, username, password, FALSE, NoData)
    IN
    IF rows = {}
    THEN Resp("login_user", NoToken, req, 404, "User not found", NoView)
    ELSE IF check_password_hash((CHOOSE u \in rows : TRUE).password_hash, password)
    THEN LET u == CHOOSE r \in rows : TRUE IN
         Resp("login_user", NoToken, req, 200, "", create_access_token(u.id, u.is_admin))
    ELSE Resp("login_user", NoToken, req, 401, "Invalid username or password", NoView)

\* POST /api/auth/login
LoginResponse(username, password) ==
    LET rows == {u \in users : u.username = username}
        req == Req(0, username, password, FALSE, NoData)
    IN
    \* data['username'], data['password']: a KeyError, which Flask answers with 500
    IF username = Absent \/ password = Absent
    THEN Resp("login_user", NoToken, req, 500, "KeyError", NoView)
    ELSE IF rows # {} /\ check_password_hash((CHOOSE u \in rows : TRUE).password_hash, password)
    THEN LET u == CHOOSE r \in rows : TRUE IN
         Resp("login_user", NoToken, req, 200, "", create_access_token(u.id, u.is_admin))
    ELSE Resp("login_user", NoToken, req, 401, "Invalid username or password", NoView)

login_user(username, password) ==
    LET r == LoginResponse(username, password) IN
    /\ last' = r
    /\ IF r.status = 200
       THEN /\ Cardinality(tokens \cup {r.view}) <= MaxTokens
            /\ tokens' = tokens \cup {r.view}
       ELSE UNCHANGED tokens
    /\ UNCHANGED <<store, secret, now, thr, writes, accounts>>

\* Fault for C14: the existence check finds nothing.
UsernameTaken_Never(username) == FALSE

\* SELECT * FROM users WHERE username = ?; if cursor.fetchone()
UsernameTaken(username) == \E u \in users : u.username = username

\* create_user_by_admin up to its INSERT: the response that ends the request
\* there, or Pass.
CreateUserEntry(cred, username, password, is_admin) ==
    LET g == admin_required("create_user_by_admin", cred)
        req == Req(0, username, password, is_admin, NoData)
    IN
    IF g # Pass THEN g
    ELSE IF username = Absent \/ password = Absent
    THEN Resp("create_user_by_admin", cred, req, 500, "KeyError", NoView)
    ELSE IF UsernameTaken(username)
    THEN Resp("create_user_by_admin", cred, req, 409, "Username already exists", NoView)
    ELSE Pass

\* INSERT INTO users (...), commit and the 201: username is UNIQUE, and the
\* IntegrityError of a duplicate is caught nowhere, so Flask answers 500.
InsertUser(cred, req) ==
    IF \E u \in users : u.username = req.name
    THEN /\ last' = Resp("create_user_by_admin", cred, req, 500, "IntegrityError", NoView)
         /\ UNCHANGED <<store, secret, now, tokens, writes, accounts>>
    ELSE LET new_user_id == NextId("users", users) IN
         /\ new_user_id <= MaxUsers
         /\ Spend(TRUE)
         /\ users' = users \cup
               {[id |-> new_user_id, username |-> req.name,
                 password_hash |-> generate_password_hash(req.password),
                 is_admin |-> req.is_admin]}
         /\ sqlite_sequence' = [sqlite_sequence EXCEPT !.users = new_user_id]
         /\ last' = Resp("create_user_by_admin", cred, req, 201, "", [id |-> new_user_id])
         /\ accounts' = accounts \cup
               {[id |-> new_user_id, name |-> req.name, password |-> req.password]}
         /\ UNCHANGED <<categories, products, orders, order_items, secret, now, tokens>>

\* POST /api/users, the whole handler.
create_user_by_admin(cred, username, password, is_admin) ==
    LET e == CreateUserEntry(cred, username, password, is_admin) IN
    IF e # Pass THEN Answer(e)
    ELSE /\ InsertUser(cred, Req(0, username, password, is_admin, NoData))
         /\ UNCHANGED thr

\* POST /api/users by statement: the SELECT, then the INSERT.
CreateUserCheck(t, cred, username, password, is_admin) ==
    LET e == CreateUserEntry(cred, username, password, is_admin) IN
    /\ thr[t].pc = "idle"
    /\ IF e # Pass
       THEN /\ last' = e
            /\ UNCHANGED thr
       ELSE /\ thr' = [thr EXCEPT ![t] = [pc |-> "insert", caller |-> cred,
                                          req |-> Req(0, username, password, is_admin, NoData),
                                          rowcount |-> 0]]
            /\ UNCHANGED last
    /\ UNCHANGED <<store, secret, now, tokens, writes, accounts>>

CreateUserInsert(t) ==
    /\ thr[t].pc = "insert"
    /\ InsertUser(thr[t].caller, thr[t].req)
    /\ thr' = [thr EXCEPT ![t] = IdleThread]

\* GET /api/users
get_all_users(cred) ==
    LET g == admin_required("get_all_users", cred) IN
    Answer(IF g # Pass THEN g ELSE Resp("get_all_users", cred, NoReq, 200, "", NoView))

\* Fault for C23: ORDER BY order_date without DESC.
OrderListings_Ascending(rows) ==
    {l \in [1..Cardinality(rows) -> rows] :
        /\ \A i, j \in DOMAIN l : i # j => l[i] # l[j]
        /\ \A i, j \in DOMAIN l : i < j => l[i].order_date <= l[j].order_date}

\* SELECT * FROM orders ORDER BY order_date DESC: every row once, later
\* dates first; SQL leaves the order of rows with equal dates open.
OrderListings(rows) ==
    {l \in [1..Cardinality(rows) -> rows] :
        /\ \A i, j \in DOMAIN l : i # j => l[i] # l[j]
        /\ \A i, j \in DOMAIN l : i < j => l[i].order_date >= l[j].order_date}

\* GET /api/orders
get_all_orders(cred) ==
    LET g == jwt_required("get_all_orders", cred) IN
    IF g # Pass THEN Answer(g)
    ELSE \E l \in OrderListings(orders) :
            Answer(Resp("get_all_orders", cred, NoReq, 200, "", [id |-> 0, rows |-> l]))

\* Fault for C12: a transition table that lets nothing leave Delivered.
update_order_status_Lifecycle(cred, order_id, has_status, new_status) ==
    LET g == admin_required("update_order_status", cred)
        req == Req(order_id, new_status, "", FALSE,
                   [NoData EXCEPT !.keys = IF has_status THEN {"status"} ELSE {}])
    IN
    IF g # Pass THEN Answer(g)
    ELSE IF ~has_status
    THEN Answer(Resp("update_order_status", cred, req, 400, "Status is required", NoView))
    ELSE IF \E o \in orders : o.id = order_id /\ o.status = "Delivered"
    THEN Answer(Resp("update_order_status", cred, req, 400, "Invalid transition", NoView))
    ELSE /\ orders' = {IF o.id = order_id THEN [o EXCEPT !.status = new_status] ELSE o :
                          o \in orders}
         /\ Spend(orders' # orders)
         /\ last' = Resp("update_order_status", cred, req, 200, "", NoView)
         /\ UNCHANGED <<users, categories, products, order_items, sqlite_sequence,
                        secret, now, tokens, thr, accounts>>

\* PUT /api/orders/<id>/status: the UPDATE is issued whether or not a row
\* matches, and the answer is 200 either way.
update_order_status(cred, order_id, has_status, new_status) ==
    LET g == admin_required("update_order_status", cred)
        req == Req(order_id, new_status, "", FALSE,
                   [NoData EXCEPT !.keys = IF has_status THEN {"status"} ELSE {}])
    IN
    IF g # Pass THEN Answer(g)
    ELSE IF ~has_status
    THEN Answer(Resp("update_order_status", cred, req, 400, "Status is required", NoView))
    ELSE /\ orders' = {IF o.id = order_id THEN [o EXCEPT !.status = new_status] ELSE o :
                          o \in orders}
         /\ Spend(orders' # orders)
         /\ last' = Resp("update_order_status", cred, req, 200, "", NoView)
         /\ UNCHANGED <<users, categories, products, order_items, sqlite_sequence,
                        secret, now, tokens, thr, accounts>>

\* Orders are placed by the storefront, not through this API: one INSERT
\* INTO orders with the order_date it is given, here with at most one line,
\* for product 1, which is in the catalog when the line is written.
create_sample_order(customer_name, order_date, status, with_item) ==
    LET order_id == NextId("orders", orders)
        item_id == NextId("order_items", order_items)
    IN
    /\ order_id <= MaxOrders
    /\ with_item => \E p \in products : p.id = 1
    /\ orders' = orders \cup
          {[id |-> order_id, customer_name |-> customer_name, order_date |-> order_date,
            status |-> status, total_amount |-> 100]}
    /\ order_items' = IF with_item
                      THEN order_items \cup
                              {[id |-> item_id, order_id |-> order_id, product_id |-> 1,
                                quantity |-> 1, price_at_purchase |-> 1]}
                      ELSE order_items
    /\ sqlite_sequence' = [sqlite_sequence EXCEPT
                              !.orders = order_id,
                              !.order_items = IF with_item THEN item_id ELSE @]
    /\ UNCHANGED <<users, categories, products, secret, now, tokens, thr, last,
                   writes, accounts>>

\* GET /api/orders/<id>: the order, with its lines joined to the products
\* that still exist.
OrderDetails(order, items, rows) ==
    [id |-> order.id, customer_name |-> order.customer_name,
     order_date |-> order.order_date, status |-> order.status,
     total_amount |-> order.total_amount,
     items |-> {[quantity |-> oi.quantity, price_at_purchase |-> oi.price_at_purchase,
                 name |-> p.name] :
                   <<oi, p>> \in {x \in items \X rows :
                                     x[1].order_id = order.id /\ x[1].product_id = x[2].id}}]
get_order_details(cred, order_id) ==
    LET g == jwt_required("get_order_details", cred)
        hit == {o \in orders : o.id = order_id}
        req == ReqId(order_id)
    IN
    Answer(IF g # Pass THEN g
           ELSE IF hit = {}
           THEN Resp("get_order_details", cred, req, 404, "Order not found", NoView)
           ELSE Resp("get_order_details", cred, req, 200, "",
                     OrderDetails(CHOOSE o \in hit : TRUE, order_items, products)))

\* ------------------------------------------------------------- categories
\* Fault for C16: a categories table whose name column is not UNIQUE.
InsertCategory_NoUnique(rows, new_id, name) ==
    [error |-> "", rows |-> rows \cup {[id |-> new_id, name |-> name]}]

\* INSERT INTO categories (name) VALUES (?): name is UNIQUE, a duplicate
\* raises IntegrityError and stores nothing.
InsertCategory(rows, new_id, name) ==
    IF \E c \in rows : c.name = name
    THEN [error |-> "IntegrityError", rows |-> rows]
    ELSE [error |-> "", rows |-> rows \cup {[id |-> new_id, name |-> name]}]

\* Fault for C25: the body looked at before the caller.
create_category_ValidateFirst(cred, name) ==
    LET g == admin_required("create_category", cred)
        req == Req(0, name, "", FALSE, NoData)
        new_id == NextId("categories", categories)
        ins == InsertCategory(categories, new_id, name)
    IN
    IF name = Absent
    THEN Answer(Resp("create_category", cred, req, 400, "Category name is required", NoView))
    ELSE IF g # Pass THEN Answer(g)
    ELSE IF ins.error # ""
    THEN Answer(Resp("create_category", cred, req, 409,
                     "Category name already exists", NoView))
    ELSE /\ new_id <= MaxCategories
         /\ Spend(TRUE)
         /\ categories' = ins.rows
         /\ sqlite_sequence' = [sqlite_sequence EXCEPT !.categories = new_id]
         /\ last' = Resp("create_category", cred, req, 201, "", [id |-> new_id])
         /\ UNCHANGED <<users, products, orders, order_items, secret, now, tokens, thr, accounts>>

\* POST /api/categories: the handler answers the IntegrityError with 409.
create_category(cred, name) ==
    LET g == admin_required("create_category", cred)
        req == Req(0, name, "", FALSE, NoData)
        new_id == NextId("categories", categories)
        ins == InsertCategory(categories, new_id, name)
    IN
    IF g # Pass THEN Answer(g)
    ELSE IF name = Absent
    THEN Answer(Resp("create_category", cred, req, 400, "Category name is required", NoView))
    ELSE IF ins.error # ""
    THEN Answer(Resp("create_category", cred, req, 409,
                     "Category name already exists", NoView))
    ELSE /\ new_id <= MaxCategories
         /\ Spend(TRUE)
         /\ categories' = ins.rows
         /\ sqlite_sequence' = [sqlite_sequence EXCEPT !.categories = new_id]
         /\ last' = Resp("create_category", cred, req, 201, "", [id |-> new_id])
         /\ UNCHANGED <<users, products, orders, order_items, secret, now, tokens, thr, accounts>>

\* Fault for C17: a delete that reports the row it did not find.
delete_category_NotFound(cred, category_id) ==
    LET g == admin_required("delete_category", cred) IN
    IF g # Pass THEN Answer(g)
    ELSE IF \A c \in categories : c.id # category_id
    THEN Answer(Resp("delete_category", cred, ReqId(category_id), 404,
                     "Category not found", NoView))
    ELSE /\ categories' = {c \in categories : c.id # category_id}
         /\ Spend(categories' # categories)
         /\ last' = Resp("delete_category", cred, ReqId(category_id), 200,
                         "Category deleted", NoView)
         /\ UNCHANGED <<users, products, orders, order_items, sqlite_sequence,
                        secret, now, tokens, thr, accounts>>

\* DELETE /api/categories/<id>
delete_category(cred, category_id) ==
    LET g == admin_required("delete_category", cred) IN
    IF g # Pass THEN Answer(g)
    ELSE /\ categories' = {c \in categories : c.id # category_id}
         /\ Spend(categories' # categories)
         /\ last' = Resp("delete_category", cred, ReqId(category_id), 200,
                         "Category deleted", NoView)
         /\ UNCHANGED <<users, products, orders, order_items, sqlite_sequence,
                        secret, now, tokens, thr, accounts>>

\* --------------------------------------------------------------- products
\* SELECT p.*, c.name AS category_name FROM products p
\* LEFT JOIN categories c ON p.category_id = c.id
TextVal(s) == [k |-> "text", s |-> s]
category_name(row, cats) ==
    LET hit == {c \in cats : row.category_id = IntVal(c.id)} IN
    IF hit = {} THEN NULL ELSE TextVal((CHOOSE c \in hit : TRUE).name)
ProductView(row, cats) ==
    [id |-> row.id, name |-> row.name, description |-> row.description,
     price |-> row.price, stock |-> row.stock, image_url |-> row.image_url,
     category_id |-> row.category_id, category_name |-> category_name(row, cats)]

\* get_product(product_id), which create_product and update_product also
\* return: the joined row, or 404.
get_product(op, cred, req, rows, cats, product_id) ==
    LET hit == {p \in rows : p.id = product_id} IN
    IF hit = {} THEN Resp(op, cred, req, 404, "Product not found", NoView)
    ELSE Resp(op, cred, req, 200, "", ProductView(CHOOSE p \in hit : TRUE, cats))

\* GET /api/products/<id> (public)
GetProduct(product_id) ==
    Answer(get_product("get_product", NoToken, ReqId(product_id),
                       products, categories, product_id))

\* Fault for C22: the list joined with JOIN instead of LEFT JOIN.
ProductList_InnerJoin(rows, cats) ==
    {ProductView(p, cats) : p \in {r \in rows : category_name(r, cats) # NULL}}

\* SELECT p.*, c.name as category_name FROM products p LEFT JOIN categories c
ProductList(rows, cats) == {ProductView(p, cats) : p \in rows}

\* GET /api/products (public)
get_all_products ==
    Answer(Resp("get_all_products", NoToken, NoReq, 200, "",
                [id |-> 0, rows |-> ProductList(products, categories)]))

\* INSERT INTO products (...) VALUES (...): the row create_product stores.
\* data['name'] and data['price'] are read by subscript, the other fields
\* with data.get and a default.
NewProduct(new_id, data) ==
    [id |-> new_id,
     name |-> data.val.name,
     description |-> IF "description" \in data.keys THEN data.val.description ELSE "",
     price |-> data.val.price,
     stock |-> IF "stock" \in data.keys THEN data.val.stock ELSE 0,
     image_url |-> IF "image_url" \in data.keys THEN data.val.image_url ELSE "",
     category_id |-> IF "category_id" \in data.keys THEN data.val.category_id ELSE NULL]

\* create_product up to its INSERT: the response that ends it there, or Pass.
\* A missing 'name' or 'price' is a KeyError, which Flask answers with 500.
CreateProductEntry(cred, data) ==
    LET g == jwt_required("create_product", cred) IN
    IF g # Pass THEN g
    ELSE IF ~({"name", "price"} \subseteq data.keys)
    THEN Resp("create_product", cred, ReqData(0, data), 500, "KeyError", NoView)
    ELSE Pass

\* POST /api/products, the whole handler.
create_product(cred, data) ==
    LET e == CreateProductEntry(cred, data)
        new_id == NextId("products", products)
    IN
    IF e # Pass THEN Answer(e)
    ELSE /\ new_id <= MaxProducts
         /\ Spend(TRUE)
         /\ products' = products \cup {NewProduct(new_id, data)}
         /\ sqlite_sequence' = [sqlite_sequence EXCEPT !.products = new_id]
         /\ last' = get_product("create_product", cred, ReqData(0, data),
                                products', categories, new_id)
         /\ UNCHANGED <<users, categories, orders, order_items, secret, now, tokens, thr, accounts>>

\* update_product up to its existence check: the response that ends the
\* request there, or Pass.
UpdateProductEntry(cred, product_id, data) ==
    LET g == jwt_required("update_product", cred)
        req == ReqData(product_id, data)
    IN
    IF g # Pass THEN g
    ELSE IF data.keys = {}
    THEN Resp("update_product", cred, req, 400, "No update data provided.", NoView)
    ELSE IF \A p \in products : p.id # product_id
    THEN Resp("update_product", cred, req, 404, "Product not found", NoView)
    ELSE Pass

\* Fault for C8: the empty string is stored as it came.
NullableCategory_Keep(data) == data

\* if 'category_id' in data and data['category_id'] == '': data['category_id'] = None
NullableCategory(data) ==
    IF "category_id" \in data.keys /\ data.val.category_id = EmptyStr
    THEN [data EXCEPT !.val.category_id = NULL]
    ELSE data

\* Fault for C7: the columns the patch does not name are reset to defaults.
SetColumns_Overwrite(row, data) ==
    [c \in ProductColumns |-> IF c \in data.keys THEN data.val[c]
                              ELSE IF c = "id" THEN row.id ELSE Blank[c]]

\* One row after SET key = ? for every key of data.
SetColumns(row, data) ==
    [c \in ProductColumns |-> IF c \in data.keys THEN data.val[c] ELSE row[c]]

\* Fault for C27: the whole row written back, the columns the patch does not
\* name as they were when the product was created.
ExecUpdate_Replace(rows, product_id, data) ==
    LET hit == {p \in rows : p.id = product_id}
        new == {[c \in ProductColumns |->
                    IF c \in data.keys THEN data.val[c]
                    ELSE IF c \in {"id", "name", "price"} THEN p[c]
                    ELSE [Blank EXCEPT !.category_id = NULL][c]] : p \in hit}
        rest == rows \ hit
    IN
    IF ~(data.keys \subseteq ProductColumns)
    THEN [error |-> "OperationalError", rows |-> rows, rowcount |-> 0]
    ELSE IF \E n \in new : n.id \in Ids(rest)
    THEN [error |-> "IntegrityError", rows |-> rows, rowcount |-> 0]
    ELSE [error |-> "", rows |-> rest \cup new, rowcount |-> Cardinality(hit)]

\* Fault for C10: a statement that inserts the row when none matches.
ExecUpdate_Upsert(rows, product_id, data) ==
    LET hit == {p \in rows : p.id = product_id}
        old == IF hit = {} THEN {[Blank EXCEPT !.id = product_id]} ELSE hit
        new == {[c \in ProductColumns |->
                    IF c \in data.keys THEN data.val[c] ELSE p[c]] : p \in old}
        rest == rows \ hit
    IN
    IF ~(data.keys \subseteq ProductColumns)
    THEN [error |-> "OperationalError", rows |-> rows, rowcount |-> 0]
    ELSE IF \E n \in new : n.id \in Ids(rest)
    THEN [error |-> "IntegrityError", rows |-> rows, rowcount |-> 0]
    ELSE [error |-> "", rows |-> rest \cup new, rowcount |-> Cardinality(new)]

\* UPDATE products SET <keys> WHERE id = ?: the statement fails to compile on
\* a key that is no column, and fails on a primary key already taken.
ExecUpdate(rows, product_id, data) ==
    LET hit == {p \in rows : p.id = product_id}
        new == {SetColumns(p, data) : p \in hit}
        rest == rows \ hit
    IN
    IF ~(data.keys \subseteq ProductColumns)
    THEN [error |-> "OperationalError", rows |-> rows, rowcount |-> 0]
    ELSE IF \E n \in new : n.id \in Ids(rest)
    THEN [error |-> "IntegrityError", rows |-> rows, rowcount |-> 0]
    ELSE [error |-> "", rows |-> rest \cup new, rowcount |-> Cardinality(hit)]

\* PUT /api/products/<id>, the whole handler.
update_product(cred, product_id, data) ==
    LET e == UpdateProductEntry(cred, product_id, data)
        u == ExecUpdate(products, product_id, NullableCategory(data))
        req == ReqData(product_id, data)
    IN
    IF e # Pass THEN Answer(e)
    ELSE IF u.error # ""
    THEN Answer(Resp("update_product", cred, req, 500, u.error, NoView))
    ELSE /\ products' = u.rows
         /\ Spend(products' # products)
         /\ last' = get_product("update_product", cred, req, u.rows, categories, product_id)
         /\ UNCHANGED <<users, categories, orders, order_items, sqlite_sequence,
                        secret, now, tokens, thr, accounts>>

\* Fault for C13: the delete takes the order lines of the product with it.
delete_product_Cascade(cred, product_id) ==
    LET g == jwt_required("delete_product", cred) IN
    IF g # Pass THEN Answer(g)
    ELSE /\ products' = {p \in products : p.id # product_id}
         /\ order_items' = {oi \in order_items : oi.product_id # product_id}
         /\ Spend(products' # products)
         /\ last' = Resp("delete_product", cred, ReqId(product_id), 200, "deleted", NoView)
         /\ UNCHANGED <<users, categories, orders, sqlite_sequence,
                        secret, now, tokens, thr, accounts>>

\* DELETE /api/products/<id>
delete_product(cred, product_id) ==
    LET g == jwt_required("delete_product", cred) IN
    IF g # Pass THEN Answer(g)
    ELSE /\ products' = {p \in products : p.id # product_id}
         /\ Spend(products' # products)
         /\ last' = Resp("delete_product", cred, ReqId(product_id), 200, "deleted", NoView)
         /\ UNCHANGED <<users, categories, orders, order_items, sqlite_sequence,
                        secret, now, tokens, thr, accounts>>

\* ------------------------------------------- update_product, by statement
\* Worker thread t takes a PUT /api/products/<id> and runs it up to the
\* existence check (SELECT * FROM products WHERE id = ?).
UpdateProductCheck(t, cred, product_id, data) ==
    LET e == UpdateProductEntry(cred, product_id, data) IN
    /\ thr[t].pc = "idle"
    /\ IF e # Pass
       THEN /\ last' = e
            /\ UNCHANGED thr
       ELSE /\ thr' = [thr EXCEPT ![t] = [pc |-> "update", caller |-> cred,
                                          req |-> ReqData(product_id, data),
                                          rowcount |-> 0]]
            /\ UNCHANGED last
    /\ UNCHANGED <<store, secret, now, tokens, writes, accounts>>

\* The UPDATE statement and its commit.
UpdateProductWrite(t) ==
    LET req == thr[t].req
        u == ExecUpdate(products, req.id, NullableCategory(req.data))
    IN
    /\ thr[t].pc = "update"
    /\ IF u.error # ""
       THEN /\ last' = Resp("update_product", thr[t].caller, req, 500, u.error, NoView)
            /\ thr' = [thr EXCEPT ![t] = IdleThread]
            /\ UNCHANGED <<products, writes>>
       ELSE /\ products' = u.rows
            /\ Spend(products' # products)
            /\ thr' = [thr EXCEPT ![t].pc = "read", ![t].rowcount = u.rowcount]
            /\ UNCHANGED last
    /\ UNCHANGED <<users, categories, orders, order_items, sqlite_sequence,
                   secret, now, tokens, accounts>>

\* return get_product(product_id)
UpdateProductRead(t) ==
    /\ thr[t].pc = "read"
    /\ last' = get_product("update_product", thr[t].caller, thr[t].req,
                           products, categories, thr[t].req.id)
    /\ thr' = [thr EXCEPT ![t] = IdleThread]
    /\ UNCHANGED <<store, secret, now, tokens, writes, accounts>>

\* ----------------------------------------------------------------- inputs
ProductIds == 1..MaxProducts
CategoryIds == 1..MaxCategories
NewVal == [name |-> "b", description |-> "d", price |-> 2, stock |-> 1,
           image_url |-> "i", category_id |-> NULL, id |-> 2]
OldVal == [name |-> "a", description |-> "", price |-> 1, stock |-> 0,
           image_url |-> "", category_id |-> NULL, id |-> 1]
CategoryValues == {EmptyStr, IntVal(1)}
\* the empty patch, every single key (a column or not), some pairs, all fields
PatchKeySets ==
    {{}} \cup {{c} : c \in ProductColumns \cup {"bogus"}}
         \cup {{"name", "price"}, {"category_id", "stock"}, {"name", "bogus"},
               {"category_id", "id"}, ProductFields}
Patches ==
    {[keys |-> ks, val |-> Json(ks \cap ProductColumns,
                                [NewVal EXCEPT !.category_id = cv]).val] :
        ks \in PatchKeySets, cv \in CategoryValues}
CreateBodies ==
    {Json(ks, [OldVal EXCEPT !.category_id = cv]) :
        ks \in {{"name", "price"}, {"name", "price", "category_id"}, {"name"}},
        cv \in {NULL, IntVal(1)}}
Callers == {NoToken} \cup tokens

\* ----------------------------------------------------------- specifications
\* The catalog, one request at a time, called by the administrator or by
\* nobody.
NextCatalog ==
    \/ login_user("admin", "changethispassword")
    \/ \E c \in tokens : create_category(c, "c1")
    \/ \E c \in tokens, i \in CategoryIds : delete_category(c, i)
    \/ \E c \in Callers, d \in CreateBodies : create_product(c, d)
    \/ \E c \in tokens, i \in ProductIds, d \in Patches : update_product(c, i, d)
    \/ \E c \in Callers, i \in ProductIds : delete_product(c, i)
    \/ \E i \in ProductIds : GetProduct(i)

SpecCatalog == Init /\ [][NextCatalog]_vars

\* Accounts, logins and token lifetime: every username and password, the
\* clock, restarts.
NextAuth ==
    \/ Tick
    \/ Restart
    \/ \E u \in LoginNames, p \in Passwords : login_user(u, p)
    \/ \E c \in tokens, u \in Usernames, p \in Passwords, a \in BOOLEAN :
          create_user_by_admin(c, u, p, a)
    \/ \E c \in {Forged} \cup tokens : get_all_orders(c)

SpecAuth == Init /\ [][NextAuth]_vars

\* The guard: every kind of credential on every guarded route, one body per
\* route.
OneBody == Json({"name", "price"}, OldVal)
OnePatch == Json({"name"}, NewVal)

NextGuard ==
    \/ \E u \in Usernames : login_user(u, "pw")
    \/ login_user("admin", "changethispassword")
    \/ \E c \in Credentials, a \in BOOLEAN : create_user_by_admin(c, "alice", "pw", a)
    \/ \E c \in Credentials : get_all_users(c)
    \/ \E c \in Credentials : get_all_orders(c)
    \/ \E c \in Credentials : create_category(c, "c1")
    \/ \E c \in Credentials : delete_category(c, 1)
    \/ \E c \in Credentials : create_product(c, OneBody)
    \/ \E c \in Credentials : update_product(c, 1, OnePatch)
    \/ \E c \in Credentials : delete_product(c, 1)
    \/ \E c \in Credentials : update_order_status(c, 1, TRUE, "Shipped")

SpecGuard == Init /\ [][NextGuard]_vars

\* Worker threads: update_product statement by statement, against the
\* other product requests.
RacePatches == {Json({"name"}, NewVal), Json({"category_id"}, NewVal),
                Json({"stock"}, NewVal), Json({"bogus"}, NewVal)}

NextThreads ==
    \/ login_user("admin", "changethispassword")
    \/ \E c \in Callers : create_product(c, OneBody)
    \/ \E c \in Callers, i \in ProductIds : delete_product(c, i)
    \/ \E t \in Threads, c \in Callers, i \in ProductIds, d \in RacePatches :
          UpdateProductCheck(t, c, i, d)
    \/ \E t \in Threads : UpdateProductWrite(t)
    \/ \E t \in Threads : UpdateProductRead(t)

SpecThreads == Init /\ [][NextThreads]_vars

\* --------------------------------------------------- creations and deletes
NextDeletes ==
    \/ login_user("admin", "changethispassword")
    \/ \E c \in Callers, n \in CategoryNames : create_category(c, n)
    \/ \E c \in Callers, i \in CategoryIds : delete_category(c, i)
    \/ \E c \in Callers, d \in CreateBodies : create_product(c, d)
    \/ \E c \in Callers, i \in ProductIds : delete_product(c, i)
    \/ \E i \in ProductIds : GetProduct(i)

SpecDeletes == Init /\ [][NextDeletes]_vars

\* ------------------------------------------------------------ product reads
\* Products over categories that exist, existed or never did, and prices and
\* stocks below zero.
ViewBodies ==
    {Json({"name", "price", "category_id"}, [OldVal EXCEPT !.category_id = cv]) :
        cv \in {NULL, IntVal(1), IntVal(2)}}
    \cup {Json({"name", "price", "stock"}, [OldVal EXCEPT !.price = -1, !.stock = -1])}
ViewPatches ==
    {Json({"category_id"}, [NewVal EXCEPT !.category_id = cv]) :
        cv \in {EmptyStr, IntVal(1), IntVal(2)}}
    \cup {Json({"price"}, [NewVal EXCEPT !.price = -2]),
          Json({"stock"}, [NewVal EXCEPT !.stock = -2])}

NextViews ==
    \/ login_user("admin", "changethispassword")
    \/ \E c \in tokens, n \in CategoryNames : create_category(c, n)
    \/ \E c \in tokens, i \in CategoryIds : delete_category(c, i)
    \/ \E c \in tokens, d \in ViewBodies : create_product(c, d)
    \/ \E c \in tokens, i \in ProductIds, d \in ViewPatches : update_product(c, i, d)
    \/ \E c \in tokens, i \in ProductIds : delete_product(c, i)
    \/ \E i \in ProductIds : GetProduct(i)
    \/ get_all_products

SpecViews == Init /\ [][NextViews]_vars

\* ---------------------------------------------------------------- orders
OrderIds == 1..MaxOrders
\* the order_date the test helper gives every order it places
SampleDate == 1

\* The order routes, next to every other route that writes (one input each).
NextOrders ==
    \/ login_user("admin", "changethispassword")
    \/ \E w \in BOOLEAN : create_sample_order("Test Customer", SampleDate, "Pending", w)
    \/ \E c \in tokens, i \in OrderIds, s \in Statuses :
          update_order_status(c, i, TRUE, s)
    \/ \E c \in Callers : get_all_orders(c)
    \/ \E c \in tokens, i \in OrderIds : get_order_details(c, i)
    \/ \E c \in tokens : create_user_by_admin(c, "alice", "pw", FALSE)
    \/ \E c \in tokens : create_category(c, "c1")
    \/ \E c \in tokens : delete_category(c, 1)
    \/ \E c \in tokens : create_product(c, OneBody)
    \/ \E c \in tokens : update_product(c, 1, OnePatch)
    \/ \E c \in tokens : delete_product(c, 1)

SpecOrders == Init /\ [][NextOrders]_vars

\* ------------------------------------------------- requests that cannot pass
\* Every guarded route, called with any credential and a body that lacks a
\* required field, names no column, or aims at a row that was never stored;
\* the one request that can succeed creates the non-admin account.
NextRejected ==
    \/ login_user("admin", "changethispassword")
    \/ login_user("alice", "pw")
    \/ \E c \in tokens : create_user_by_admin(c, "alice", "pw", FALSE)
    \/ \E c \in Credentials : create_user_by_admin(c, Absent, Absent, FALSE)
    \/ \E c \in Credentials : get_all_users(c)
    \/ \E c \in Credentials : get_all_orders(c)
    \/ \E c \in Credentials : get_order_details(c, 1)
    \/ \E c \in Credentials : update_order_status(c, 1, FALSE, "Shipped")
    \/ \E c \in Credentials : create_category(c, Absent)
    \/ \E c \in Credentials : delete_category(c, 1)
    \/ \E c \in Credentials : create_product(c, Json({"name"}, OldVal))
    \/ \E c \in Credentials : update_product(c, 1, Json({"bogus"}, NewVal))
    \/ \E c \in Credentials : delete_product(c, 1)

SpecRejected == Init /\ [][NextRejected]_vars

\* ------------------------------------------------------- accounts, restarts
\* Accounts of either name and role created between restarts of the server,
\* each of which runs init_db again.
NextInit ==
    \/ Restart
    \/ \E u \in Usernames : login_user(u, "pw")
    \/ login_user("admin", "changethispassword")
    \/ \E c \in tokens, u \in Usernames, a \in BOOLEAN :
          create_user_by_admin(c, u, "pw", a)
    \/ \E c \in Callers : get_all_users(c)

SpecInit == Init /\ [][NextInit]_vars

\* ------------------------------------------------------------ order listing
\* Orders placed with dates in any order, listed by anyone.
OrderDates == 0..MaxOrders
NextListing ==
    \/ login_user("admin", "changethispassword")
    \/ \E d \in OrderDates : create_sample_order("Test Customer", d, "Pending", FALSE)
    \/ \E c \in tokens, i \in OrderIds : update_order_status(c, i, TRUE, "Delivered")
    \/ \E c \in Callers : get_all_orders(c)

SpecListing == Init /\ [][NextListing]_vars

\* ------------------------------------------------- requests lacking a field
NextInputs ==
    \/ \E u \in {Absent, "admin"}, p \in {Absent, "changethispassword"} : login_user(u, p)
    \/ \E c \in Callers, u \in {Absent, "alice"}, p \in {Absent, "pw"}, a \in BOOLEAN :
          create_user_by_admin(c, u, p, a)
    \/ \E c \in Callers, n \in {Absent} \cup CategoryNames : create_category(c, n)
    \/ \E s \in Statuses : create_sample_order("Test Customer", SampleDate, s, FALSE)
    \/ \E c \in Callers, i \in OrderIds, h \in BOOLEAN :
          update_order_status(c, i, h, "Delivered")

SpecInputs == Init /\ [][NextInputs]_vars

\* ------------------------------------------- create_user_by_admin, threaded
NextUsers ==
    \/ \E u \in Usernames : login_user(u, "pw")
    \/ login_user("admin", "changethispassword")
    \/ \E t \in Threads, c \in Callers, u \in Usernames, p \in Passwords, a \in BOOLEAN :
          CreateUserCheck(t, c, u, p, a)
    \/ \E t \in Threads : CreateUserInsert(t)

SpecUsers == Init /\ [][NextUsers]_vars

Next == NextAuth \/ NextGuard \/ NextCatalog \/ NextThreads \/ NextOrders \/ NextInputs
           \/ NextUsers \/ NextDeletes \/ NextViews \/ NextListing
           \/ NextRejected \/ NextInit
Spec == Init /\ [][Next]_vars

\* ------------------------------------------------------------------ claims
AdminOps == {"create_user_by_admin", "get_all_users", "create_category",
             "delete_category", "update_order_status"}
AuthOnlyOps == {"get_all_orders", "create_product", "update_product", "delete_product"}
GuardedOps == AdminOps \cup AuthOnlyOps
ProductWriteOps == {"create_product", "update_product", "delete_product"}
\* the statuses with which the token check itself ends a request
TokenRejections == {401, 422}

\* C1: an authenticated-only route lets every valid token pass whatever its
\* is_admin claim (get_all_orders answers 200); every guarded route answers a
\* missing or a malformed token with 401; an admin-gated route answers a
\* valid token whose is_admin claim is false with 403.
C1_MalformedIs401 ==
    /\ (last.op = "get_all_orders" /\ last.caller \in tokens) => last.status = 200
    /\ (last.op \in AuthOnlyOps /\ last.caller \in tokens)
          => last.status \notin TokenRejections \cup {403}
    /\ (last.op \in GuardedOps /\ last.caller \in {NoToken, Malformed})
          => last.status = 401
    /\ (last.op \in AdminOps /\ last.caller \in tokens /\ ~last.caller.is_admin)
          => last.status = 403

\* C2: every token login has issued carries the id and the stored is_admin
\* flag of a user, and the body of an admin-gated route has run only for an
\* issued token whose subject is a stored user with is_admin = true.
C2_AdminBodyOnlyForAdmins ==
    /\ \A tok \in tokens : \E u \in users : u.id = tok.sub /\ u.is_admin = tok.is_admin
    /\ (last.op = "login_user" /\ last.status = 200)
          => \E u \in users : /\ u.username = last.req.name
                              /\ last.view.sub = u.id
                              /\ last.view.is_admin = u.is_admin
    /\ (last.op \in AdminOps /\ last.status \notin TokenRejections \cup {403})
          => /\ last.caller \in tokens
             /\ \E u \in users : u.id = last.caller.sub /\ u.is_admin

\* C2 witness: an administrator other than the default one, created through
\* POST /api/users, has logged in and created a category.
C2_Witness ==
    /\ last.op = "create_category"
    /\ last.status = 201
    /\ last.caller.sub # 1
    /\ \E u \in users : u.id = last.caller.sub /\ u.is_admin

\* C3: for every account created by POST /api/users, in every later state a
\* login with its username and password succeeds with a token for that
\* account, and a login with its username and any other password fails with
\* 401 Invalid username or password.
C3_StoredCredentialsAuthenticate ==
    /\ \A a \in accounts :
          /\ LoginResponse(a.name, a.password).status = 200
          /\ LoginResponse(a.name, a.password).view.sub = a.id
          /\ \A p \in Passwords \ {a.password} :
                /\ LoginResponse(a.name, p).status = 401
                /\ LoginResponse(a.name, p).error = "Invalid username or password"
                /\ LoginResponse(a.name, p).view = NoView
    /\ (last.op = "login_user" /\ \E a \in accounts : a.name = last.req.name)
          => (last.status = 200 <=>
                \E a \in accounts : a.name = last.req.name /\ a.password = last.req.password)

\* C3 witness: after a restart, a created account has logged in with the
\* password it was created with.
C3_Witness ==
    /\ secret > 0
    /\ last.op = "login_user"
    /\ last.status = 200
    /\ \E a \in accounts : a.name = last.req.name /\ a.password = last.req.password

\* The password an account was given: the one of its creation, or the one
\* init_db gives the default admin.
PasswordOf(name) ==
    IF \E a \in accounts : a.name = name
    THEN (CHOOSE a \in accounts : a.name = name).password
    ELSE "changethispassword"
Outcome(r) == [status |-> r.status, error |-> r.error, view |-> r.view]

\* C4: a login with a username that is not stored and a login with a stored
\* username and a wrong password get the same answer: status 401, the same
\* message, no token.
C4_SameFailure ==
    /\ \A u1 \in LoginNames, u2 \in LoginNames, p1 \in Passwords, p2 \in Passwords :
          ( /\ \A u \in users : u.username # u1
            /\ \E u \in users : u.username = u2
            /\ p2 # PasswordOf(u2) )
          => /\ Outcome(LoginResponse(u1, p1)) = Outcome(LoginResponse(u2, p2))
             /\ LoginResponse(u1, p1).status = 401
    /\ (last.op = "login_user" /\ last.status # 200)
          => /\ last.status = 401
             /\ last.error = "Invalid username or password"
             /\ last.view = NoView

\* C4 witness: a login under a name that is not stored was refused while a
\* created account exists.
C4_Witness ==
    /\ last.op = "login_user"
    /\ last.status = 401
    /\ \A u \in users : u.username # last.req.name
    /\ accounts # {}

\* C5: a guarded request passes the token check only with a token that login
\* issued in the running process and that has not expired; a token the check
\* rejects is rejected ever after, and a restart makes the check reject every
\* token issued before it.
C5_TokenLifetime ==
    [][ /\ ( /\ last' # last
             /\ last'.op \in GuardedOps
             /\ last'.status \notin TokenRejections )
           => /\ last'.caller \in tokens
              /\ last'.caller.key = secret'
              /\ now' < last'.caller.exp
        /\ \A tok \in tokens :
              /\ verify_jwt_in_request(tok) # "ok" => (verify_jwt_in_request(tok) # "ok")'
              /\ secret' # secret => (verify_jwt_in_request(tok) # "ok")'
      ]_vars

\* C5 witness: a token issued before the restart was presented after it and
\* rejected.
C5_Witness ==
    /\ last.op = "get_all_orders"
    /\ last.caller \in tokens
    /\ last.caller.key # secret
    /\ last.caller.exp > now
    /\ last.status \in TokenRejections

\* C6: creating, updating or deleting a product with a valid token whose
\* is_admin claim is false is answered with 403 and changes no product.
C6_ProductWritesAdminOnly ==
    [][ ( /\ last' # last
          /\ last'.op \in ProductWriteOps
          /\ last'.caller \in tokens
          /\ ~last'.caller.is_admin )
        => (last'.status = 403 /\ products' = products) ]_vars

\* The patches C7, C8 and C10 speak of name product fields only (what
\* becomes of any other name is C9).
FieldPatch(data) == data.keys # {} /\ data.keys \subseteq ProductFields
\* An update_product request that passed the token check is answered in this
\* step, and a product with its id exists.
UpdatesExisting ==
    /\ last' # last
    /\ last'.op = "update_product"
    /\ last'.req.data.keys # {}
    /\ last'.req.id \in Ids(products)

C8_EmptyCategoryClears ==
    [][ ( /\ UpdatesExisting
          /\ FieldPatch(last'.req.data)
          /\ "category_id" \in last'.req.data.keys
          /\ last'.req.data.val.category_id = EmptyStr )
        => /\ last'.status = 200
           /\ last'.view.id = last'.req.id
           /\ last'.view.category_id = NULL
           /\ last'.view.category_name = NULL
           /\ \A p \in products' : p.id = last'.req.id => p.category_id = NULL ]_vars

\* C8 witness: the only product was created in the existing category 1 and
\* the patch {category_id: ""} then changed it.
C8_Witness ==
    /\ last.op = "update_product"
    /\ last.status = 200
    /\ last.req.data.keys = {"category_id"}
    /\ last.req.data.val.category_id = EmptyStr
    /\ \E c \in categories : c.id = 1
    /\ sqlite_sequence.products = 1
    /\ writes = 3

\* C9: update_product on an existing product with a patch that names
\* something that is no product column is answered with 400 and changes no
\* product.
C9_UnknownFieldRejected ==
    [][ (UpdatesExisting /\ ~(last'.req.data.keys \subseteq ProductColumns))
        => (last'.status = 400 /\ products' = products) ]_vars

\* C10: an update_product (with a patch of product fields) is answered with
\* 404 whenever no product with its id exists when it answers, and no step
\* of an update_product whose product does not exist changes the products;
\* so also when the product is deleted between the existence check and the
\* UPDATE.
C10_NotFoundNoResurrection ==
    [][ /\ ( /\ last' # last
             /\ last'.op = "update_product"
             /\ last'.req.data.keys # {}
             /\ last'.req.id \notin Ids(products) )
           => /\ products' = products
              /\ FieldPatch(last'.req.data) => last'.status = 404
        /\ \A t \in Threads :
              ( /\ thr[t].pc \in {"update", "read"}
                /\ thr'[t] # thr[t]
                /\ thr[t].req.id \notin Ids(products) )
              => /\ products' = products
                 /\ ( /\ thr'[t].pc = "idle"
                      /\ FieldPatch(thr[t].req.data) )
                    => /\ last'.req = thr[t].req
                       /\ last'.status = 404
      ]_vars

\* C10 witness: the UPDATE of a request that had passed the existence check
\* matched no row, the product having been deleted in between.
C10_Witness ==
    \E t \in Threads : /\ thr[t].pc = "read"
                       /\ thr[t].rowcount = 0
                       /\ FieldPatch(thr[t].req.data)
                       /\ thr[t].req.id \in 1..sqlite_sequence.products
                       /\ thr[t].req.id \notin Ids(products)

\* An update_order_status request of an administrator that names a status is
\* answered in this step.
UpdatesStatus ==
    /\ last' # last
    /\ last'.op = "update_order_status"
    /\ last'.caller \in tokens
    /\ last'.caller.is_admin
    /\ "status" \in last'.req.data.keys

\* C11: update_order_status by an administrator for an order id that does
\* not exist is answered with 404 Order not found and changes no order.
C11_UnknownOrderNotFound ==
    [][ (UpdatesStatus /\ last'.req.id \notin Ids(orders))
        => /\ last'.status = 404
           /\ last'.error = "Order not found"
           /\ orders' = orders ]_vars

\* C12: update_order_status by an administrator for an existing order is
\* answered with 200 whatever the status of the order and whatever the new
\* status, and the order then has the new status.
C12_AnyStatusAccepted ==
    [][ (UpdatesStatus /\ last'.req.id \in Ids(orders))
        => /\ last'.status = 200
           /\ \A o \in orders' : o.id = last'.req.id => o.status = last'.req.name ]_vars

\* C12 witness: an order is stored with a status that is none of the five
\* of the storefront, set by the request just answered.
C12_Witness ==
    /\ last.op = "update_order_status"
    /\ last.status = 200
    /\ last.req.name = "on hold"
    /\ \E o \in orders : o.id = last.req.id /\ o.status = "on hold"
    /\ \E o \in orders : o.status = "Delivered"

\* C13: no step changes a stored order other than in its status, and the
\* status only by an update_order_status answered with 200 for that order,
\* which sets it to the status sent; no request adds or removes an order or
\* an order line; get_all_orders and get_order_details change nothing.
C13_StatusSoleMutablePart ==
    [][ /\ \A o \in orders : \E o2 \in orders' :
              /\ o2.id = o.id
              /\ [o2 EXCEPT !.status = o.status] = o
              /\ o2 # o => /\ last'.op = "update_order_status"
                           /\ last'.status = 200
                           /\ last'.req.id = o.id
                           /\ o2.status = last'.req.name
        /\ order_items \subseteq order_items'
        /\ last' # last => /\ Ids(orders') = Ids(orders)
                           /\ order_items' = order_items
        /\ (last' # last /\ last'.op \in {"get_all_orders", "get_order_details"})
              => store' = store
      ]_vars

\* C13 witness: with two orders and an order line stored, one order has been
\* given another status and the other still has the one it was placed with.
C13_Witness ==
    /\ last.op = "update_order_status"
    /\ last.status = 200
    /\ order_items # {}
    /\ \E o1 \in orders, o2 \in orders :
          /\ o1.id = last.req.id
          /\ o1.status = last.req.name
          /\ o1.status # "Pending"
          /\ o2.id # o1.id
          /\ o2.status = "Pending"

\* A create_user_by_admin request that names a username and a password has
\* passed the guard and is answered in this step.
CreatesUser ==
    /\ last' # last
    /\ last'.op = "create_user_by_admin"
    /\ last'.status \notin TokenRejections \cup {403}
    /\ last'.req.name # Absent
    /\ last'.req.password # Absent

\* C14: create_user_by_admin with a username that is stored is answered with
\* 409 Username already exists and leaves the users as they are; with a
\* username that is not stored it adds exactly one user, with that username
\* and a new id, and returns the id.
C14_DuplicateUsernameConflict ==
    [][ CreatesUser =>
          IF \E u \in users : u.username = last'.req.name
          THEN /\ last'.status = 409
               /\ last'.error = "Username already exists"
               /\ users' = users
          ELSE /\ last'.status = 201
               /\ last'.view.id \notin Ids(users)
               /\ \E u \in users' : /\ u.id = last'.view.id
                                    /\ u.username = last'.req.name
                                    /\ u.is_admin = last'.req.is_admin
                                    /\ users' = users \cup {u} ]_vars

\* C14 witness: a second creation of the account alice was refused with 409.
C14_Witness ==
    /\ last.op = "create_user_by_admin"
    /\ last.status = 409
    /\ last.req.name = "alice"
    /\ \E a \in accounts : a.name = "alice"

\* C15: when create_user_by_admin requests run concurrently, a request whose
\* username is stored by the time it answers is answered with 409 (never
\* with an internal error), and no two stored users share a username.
C15_ConcurrentCreateConflict ==
    [][ /\ (CreatesUser /\ \E u \in users : u.username = last'.req.name)
           => last'.status = 409
        /\ \A u1 \in users', u2 \in users' : u1.username = u2.username => u1 = u2
      ]_vars

\* A create_category request of an administrator that names a category is
\* answered in this step.
CreatesCategory ==
    /\ last' # last
    /\ last'.op = "create_category"
    /\ last'.caller \in tokens
    /\ last'.caller.is_admin
    /\ last'.req.name # Absent

\* C16: create_category with a name no stored category has is answered with
\* 201 and stores one category; with the name of a stored category it is
\* answered with 409 Category name already exists and stores nothing; no two
\* stored categories share a name.
C16_CategoryNameUnique ==
    [][ /\ \A c1 \in categories', c2 \in categories' : c1.name = c2.name => c1 = c2
        /\ CreatesCategory =>
             IF \E c \in categories : c.name = last'.req.name
             THEN /\ last'.status = 409
                  /\ last'.error = "Category name already exists"
                  /\ categories' = categories
             ELSE /\ last'.status = 201
                  /\ last'.view.id \notin Ids(categories)
                  /\ categories' = categories \cup
                        {[id |-> last'.view.id, name |-> last'.req.name]} ]_vars

\* C16 witness: with a category stored, a creation under its name was
\* refused with 409.
C16_Witness ==
    /\ last.op = "create_category"
    /\ last.status = 409
    /\ \E c \in categories : c.name = last.req.name

\* A delete_product or delete_category request with a valid token (of an
\* administrator) is answered in this step.
Deletes(op) ==
    /\ last' # last
    /\ last'.op = op
    /\ last'.caller \in tokens
    /\ last'.caller.is_admin

C18_DeleteUnknownNotFound ==
    [][ /\ (Deletes("delete_product") /\ last'.req.id \notin Ids(products))
           => (last'.status = 404 /\ last'.error = "Product not found")
        /\ (Deletes("delete_category") /\ last'.req.id \notin Ids(categories))
           => (last'.status = 404 /\ last'.error = "Category not found")
      ]_vars

\* C19: create_product with name and price present stores one product whose
\* omitted optional fields are description "", stock 0, image_url "" and
\* category_id null; with name or price absent it is answered with 400 Name
\* and price are required fields. and stores nothing.
C19_NameAndPriceRequired ==
    [][ ( /\ last' # last
          /\ last'.op = "create_product"
          /\ last'.caller \in tokens )
        => IF {"name", "price"} \subseteq last'.req.data.keys
           THEN /\ last'.status = 200
                /\ last'.view.id \notin Ids(products)
                /\ \E p \in products' :
                      /\ products' = products \cup {p}
                      /\ p.id = last'.view.id
                      /\ \A f \in ProductFields :
                            p[f] = IF f \in last'.req.data.keys
                                   THEN last'.req.data.val[f]
                                   ELSE [Blank EXCEPT !.category_id = NULL][f]
           ELSE /\ last'.status = 400
                /\ last'.error = "Name and price are required fields."
                /\ products' = products ]_vars

\* C20: login_user or create_user_by_admin without username or password,
\* create_category without name and update_order_status without status are
\* answered with 400 and change nothing in the store.
C20_MissingFieldIsBadRequest ==
    [][ ( /\ last' # last
          /\ \/ /\ last'.op \in {"login_user", "create_user_by_admin", "create_category"}
                /\ Absent \in {last'.req.name, last'.req.password}
             \/ /\ last'.op = "update_order_status"
                /\ last'.caller \in tokens
                /\ last'.caller.is_admin
                /\ "status" \notin last'.req.data.keys )
        => (last'.status = 400 /\ store' = store) ]_vars

\* C21: get_order_details on a stored order answers with one item entry for
\* each order_items row of that order, whatever has since happened to the
\* products the rows refer to, each entry with the price_at_purchase of its row.
C21_OneEntryPerLine ==
    [][ ( /\ last' # last
          /\ last'.op = "get_order_details"
          /\ last'.status = 200 )
        => LET lines == {oi \in order_items : oi.order_id = last'.req.id} IN
           /\ Cardinality(last'.view.items) = Cardinality(lines)
           /\ \A oi \in lines : \E e \in last'.view.items :
                 e.price_at_purchase = oi.price_at_purchase ]_vars

\* v is the view of a row of rows, joined to cats as a left join does
LeftJoined(v, rows, cats) ==
    /\ \E p \in rows : p.id = v.id /\ p.category_id = v.category_id
    /\ \A c \in cats : v.category_id = IntVal(c.id) => v.category_name = TextVal(c.name)
    /\ (\A c \in cats : v.category_id # IntVal(c.id)) => v.category_name = NULL
\* C22: product reads are left joins. get_all_products answers with one view
\* for each stored product; every product view (in the list, from
\* get_product, create_product or update_product) has the category_id of the
\* stored product and the name of the stored category with that id as
\* category_name, or null when there is no such category; and
\* delete_category leaves the products as they are.
C22_LeftJoin ==
    [][ last' # last =>
        /\ last'.op = "get_all_products" =>
              /\ last'.status = 200
              /\ {v.id : v \in last'.view.rows} = Ids(products')
              /\ Cardinality(last'.view.rows) = Cardinality(products')
              /\ \A v \in last'.view.rows : LeftJoined(v, products', categories')
        /\ ( /\ last'.op \in {"get_product", "create_product", "update_product"}
             /\ last'.status = 200 )
           => LeftJoined(last'.view, products', categories')
        /\ last'.op = "delete_category" => products' = products ]_vars
\* the list holds a product of a stored category next to one whose category
\* is not stored
C22_Witness ==
    /\ last.op = "get_all_products"
    /\ \E v, w \in last.view.rows :
          /\ v.category_id # NULL /\ v.category_name = NULL
          /\ w.category_name # NULL
    /\ \E c \in categories, p \in products : p.category_id = IntVal(c.id)

\* C23: get_all_orders answers with every stored order exactly once, no
\* order before one of a later order_date; an order dated before all the
\* others is therefore the last of the list.
C23_NewestFirst ==
    [][ ( /\ last' # last
          /\ last'.op = "get_all_orders"
          /\ last'.status = 200 )
        => LET l == last'.view.rows IN
           /\ Len(l) = Cardinality(orders')
           /\ {l[i] : i \in 1..Len(l)} = orders'
           /\ \A i, j \in 1..Len(l) : i < j => l[i].order_date >= l[j].order_date
           /\ \A o \in orders' :
                 (\A x \in orders' \ {o} : o.order_date < x.order_date)
                 => l[Len(l)] = o ]_vars
\* the order placed second carries the earlier date and is listed last
C23_Witness ==
    /\ last.op = "get_all_orders"
    /\ last.status = 200
    /\ Len(last.view.rows) = 2
    /\ last.view.rows[2].id = 2
    /\ last.view.rows[2].order_date < last.view.rows[1].order_date

\* C24: every stored product has a price of at least zero and a stock of at
\* least zero, whatever create_product and update_product calls came before.
C24_NonNegative == \A p \in products : p.price >= 0 /\ p.stock >= 0

\* C25: the guard comes first and a request it rejects changes nothing. A
\* guarded route called without a token answers 401, with a token that does
\* not verify it answers with the token check's rejection, and an
\* administrators' route called with a non-admin's token answers 403, also
\* when the body is invalid or the target is not stored; in each case the
\* handler is not entered and users, categories, products, orders and order
\* lines stay as they are.
C25_GuardFirst ==
    [][ ( /\ last' # last
          /\ last'.op \in GuardedOps \cup {"get_order_details"} )
        => /\ last'.caller = NoToken => last'.status = 401
           /\ last'.caller \notin tokens => last'.status \in TokenRejections
           /\ ( /\ last'.caller \in tokens
                /\ ~last'.caller.is_admin
                /\ last'.op \in AdminOps ) => last'.status = 403
           /\ last'.status \in TokenRejections \cup {403}
              => (last'.req = NoReq /\ store' = store) ]_vars
\* a non-admin's create_category without a name (the only kind sent) is
\* answered 403, not 400
C25_Witness ==
    /\ last.op = "create_category"
    /\ last.status = 403
    /\ last.caller \in tokens
    /\ ~last.caller.is_admin
    /\ categories = {}

\* C26: update_product keeps the identity of the product. Whenever an
\* update_product on a stored product p is answered 200 or has changed the
\* products, the stored ids are those of before, a product with id p is
\* among them, the answer is 200 and its view is the view of p.
C26_KeepsIdentity ==
    [][ (UpdatesExisting /\ (last'.status = 200 \/ products' # products))
        => /\ Ids(products') = Ids(products)
           /\ last'.req.id \in Ids(products')
           /\ last'.status = 200
           /\ last'.view.id = last'.req.id ]_vars

\* C27: no update is lost between concurrent update_product requests. The
\* UPDATE of a request whose patch names product fields leaves every column
\* the patch does not name, and every other product, as it was; and when two
\* requests on the same product with patches naming different fields have
\* both run their UPDATE on it, in either order, the product holds the
\* values of both patches.
C27_NoLostUpdate ==
    [][ /\ \A t \in Threads :
              ( /\ thr[t].pc = "update"
                /\ thr'[t] # thr[t]
                /\ FieldPatch(thr[t].req.data) )
              => /\ Ids(products') = Ids(products)
                 /\ \A p \in products : \E q \in products' :
                       /\ q.id = p.id
                       /\ \A c \in ProductColumns :
                             (p.id # thr[t].req.id \/ c \notin thr[t].req.data.keys)
                             => q[c] = p[c]
        /\ \A t, u \in Threads :
              ( /\ t # u
                /\ thr'[t].pc = "read" /\ thr'[u].pc = "read"
                /\ thr'[t].rowcount = 1 /\ thr'[u].rowcount = 1
                /\ thr'[t].req.id = thr'[u].req.id
                /\ FieldPatch(thr'[t].req.data) /\ FieldPatch(thr'[u].req.data)
                /\ thr'[t].req.data.keys \cap thr'[u].req.data.keys = {} )
              => \A p \in products' :
                    p.id = thr'[t].req.id
                    => \A w \in {t, u} : \A f \in thr'[w].req.data.keys :
                          p[f] = NullableCategory(thr'[w].req.data).val[f] ]_vars
\* both requests have run their UPDATE on product 1, one naming name and the
\* other stock, and neither has answered yet: the product has both values
C27_Witness ==
    /\ thr[1].pc = "read" /\ thr[2].pc = "read"
    /\ thr[1].rowcount = 1 /\ thr[2].rowcount = 1
    /\ thr[1].req.id = 1 /\ thr[2].req.id = 1
    /\ thr[1].req.data.keys = {"stock"}
    /\ thr[2].req.data.keys = {"name"}
    /\ \E p \in products : p.id = 1 /\ p.name = NewVal.name /\ p.stock = NewVal.stock

\* C28: from init_db on, some stored user has is_admin set, in every state:
\* no step removes a user or changes one; a restart, which runs init_db
\* again, inserts no user; and in no state would init_db's INSERT of the
\* default administrator fail on the unique username.
C28_AdminAlways ==
    /\ \E u \in users : u.is_admin
    /\ [][ /\ \E u \in users' : u.is_admin
           /\ users \subseteq users'
           /\ secret' # secret => users' = users
           /\ InitDbError(users') = "" ]_vars
\* the server has just been restarted with a second account stored
C28_Witness ==
    /\ last = Started
    /\ secret = 1
    /\ \E u \in users : ~u.is_admin
    /\ Cardinality({u \in users : u.is_admin}) = 1
====
